---- MODULE Spec2Model ----
(***************************************************************************)
(* A model of the graph container widget of iced_node_editor               *)
(* (src/iced_node_editor/src/graph_container.rs): the host builds the      *)
(* widget from its own state (matrix, dangling_source, handlers), the      *)
(* toolkit lays it out, hands it events and draws it.  Points are taken    *)
(* on a small integer grid; the descaled cursor position is an exact       *)
(* rational, so dividing by the scale is never the identity.               *)
(***************************************************************************)
EXTENDS Integers, Sequences, FiniteSets, TLC

\* ------------------------------------------------------------- bounds
\* The window is the grid 0..MaxX x 0..MaxY; the container's layout bounds
\* start at (1, 1) and are MaxX wide and MaxY high, so column 0 and row 0 of
\* the window lie outside the bounds.
MaxX == 2
MaxY == 2
\* Scroll deltas are -MaxScroll..MaxScroll without 0.
MaxScroll == 1
\* Socket indices of the endpoints handed to Link::from_unordered are
\* 0..MaxSocket.
MaxSocket == 1
\* The scales handed to normalize_scale have binary exponents -MaxExp..MaxExp.
MaxExp == 3
\* In draw a length is a whole number of 1/Sub of a pixel, and the content
\* drawn has DrawnChildren children.
Sub == 2
DrawnChildren == 2
\* The guidelines are drawn in bounds GridSpan pixels wide and high, for
\* translations of -MaxOffset..MaxOffset pixels.
GridSpan == 12
MaxOffset == 13

\* ------------------------------------------------------------- values
\* Option<T>
None == <<>>
Some(v) == <<v>>
IsSome(o) == Len(o) = 1
Unwrap(o) == o[1]

Point(px, py) == [x |-> px, y |-> py]

Abs(n) == IF n < 0 THEN -n ELSE n

RECURSIVE GCD(_, _)
GCD(a, b) == IF b = 0 THEN a ELSE GCD(b, a % b)

\* n / d as an exact fraction in lowest terms (d > 0).
Rat(n, d) ==
    LET g == GCD(Abs(n), d)
    IN  [n |-> n \div g, d |-> d \div g]

\* iced's Rectangle::contains as called at the hit test: the left and top
\* edges belong to the rectangle, the right and bottom ones do not.
contains(rect, p) ==
    /\ rect.x <= p.x
    /\ p.x < rect.x + rect.width
    /\ rect.y <= p.y
    /\ p.y < rect.y + rect.height

Intents == {"on_translate", "on_scale", "on_connect", "on_disconnect", "on_dangling"}

Ignored == "Ignored"
Captured == "Captured"

\* event::Status::merge
merge(a, b) == IF a = Captured \/ b = Captured THEN Captured ELSE Ignored

\* ------------------------------------------------------------- the scene
\* The content vector the host passes to graph_container(): two nodes and one
\* connection, in paint order.  A node's socket blobs are given at scale 1 in
\* container-local pre-translation coordinates.
Content ==
    << [kind |-> "Node",
        inputs  |-> << [x |-> 0, y |-> 0, width |-> 2, height |-> 2],
                       [x |-> 0, y |-> 0, width |-> 1, height |-> 1] >>,
        outputs |-> << [x |-> 1, y |-> 0, width |-> 1, height |-> 1] >>],
       [kind |-> "Node",
        inputs  |-> << [x |-> 1, y |-> 1, width |-> 1, height |-> 1] >>,
        outputs |-> << [x |-> 0, y |-> 1, width |-> 1, height |-> 1] >>],
       [kind |-> "Connection", inputs |-> << >>, outputs |-> << >>] >>

\* layout.bounds() of the container.
Bounds == [x |-> 1, y |-> 1, width |-> MaxX, height |-> MaxY]

\* mouse::Cursor: unavailable, or a point of the window.
Cursors == {None} \cup {Some(Point(px, py)) : px \in 0..MaxX, py \in 0..MaxY}

\* mouse::ScrollDelta: the unit and the y component (x is never read).
ScrollDeltas ==
    {[unit |-> u, y |-> dy] : u \in {"Lines", "Pixels"},
                              dy \in (-MaxScroll..MaxScroll) \ {0}}

\* The events told apart by on_event; "Other" is any event of the `_` arms.
Events ==
    {[kind |-> k, delta |-> None] :
        k \in {"LeftPressed", "LeftReleased", "CursorMoved", "Other"}}
    \cup {[kind |-> "WheelScrolled", delta |-> Some(d)] : d \in ScrollDeltas}

\* The matrices the host supplies: scale and translation.
Matrices ==
    {[scale |-> 1, tx |-> 0, ty |-> 0],
     [scale |-> 1, tx |-> 1, ty |-> 0],
     [scale |-> 2, tx |-> -1, ty |-> 1]}

LogicalEndpoint(n, r, s) == [node_index |-> n, role |-> r, socket_index |-> s]

\* The endpoints the host may name in dangling_source: the first socket of
\* each role of each node.
SceneEndpoints ==
    {LogicalEndpoint(n, r, 0) : n \in {0, 1}, r \in {"In", "Out"}}

Socket(e) == [tag |-> "Socket", endpoint |-> e]
Absolute(p) == [tag |-> "Absolute", point |-> p]

\* Link { from, to }
Link(a, b) == [from |-> a, to |-> b]

IsSocketOf(e, r) == e.tag = "Socket" /\ e.endpoint.role = r

\* A constructor that keeps the order given: Link { from: a, to: b }.
from_ordered(a, b) == Link(a, b)

\* Link::from_unordered: if exactly one endpoint is a socket of role Out it
\* comes first; else if exactly one is a socket of role In the other comes
\* first; otherwise the order given is kept.
from_unordered(a, b) ==
    IF IsSocketOf(a, "Out") /= IsSocketOf(b, "Out")
    THEN IF IsSocketOf(a, "Out") THEN Link(a, b) ELSE Link(b, a)
    ELSE IF IsSocketOf(a, "In") /= IsSocketOf(b, "In")
         THEN IF IsSocketOf(a, "In") THEN Link(b, a) ELSE Link(a, b)
         ELSE Link(a, b)

\* The messages the five handlers build.
TranslateMsg(dx, dy) == [intent |-> "on_translate", delta |-> Point(dx, dy)]
ScaleMsg(px, py, dy) == [intent |-> "on_scale", x |-> px, y |-> py, dy |-> dy]
ConnectMsg(l) == [intent |-> "on_connect", link |-> l]
DisconnectMsg(e, p) == [intent |-> "on_disconnect", endpoint |-> e, point |-> p]
DanglingMsg(v) == [intent |-> "on_dangling", value |-> v]

\* ------------------------------------------------------------- state
VARIABLES
    matrix,               \* GraphContainer.matrix (host supplied)
    dangling_source,      \* GraphContainer.dangling_source (host supplied)
    handlers,             \* the intents whose on_* handler is Some
    socket_state,         \* GraphContainer.socket_state: inputs, outputs, done
    drag_start_position,  \* GraphContainerState.drag_start_position
    phase,                \* "built": view built; "laid_out": layout has run
    event,                \* the event of the last on_event call, if any
    cursor,               \* the cursor of the last on_event call
    status,               \* the status the last on_event call returned
    shell,                \* the messages the last on_event call published
    offered,              \* the children it offered the event, with their answers
    pan_published,        \* the pan's press point plus every delta published since
    args,                 \* the arguments of a helper function applied on its own
    result                \* what the helper function returned for them

vars == <<matrix, dangling_source, handlers, socket_state, drag_start_position,
          phase, event, cursor, status, shell, offered, pan_published, args, result>>

\* ------------------------------------------------------------- layout
\* SocketLayoutState as GraphContainer::new builds it.
EmptySocketState == [inputs |-> << >>, outputs |-> << >>, done |-> FALSE]

\* SocketLayoutState::clear
clear(st) == [inputs |-> << >>, outputs |-> << >>, done |-> FALSE]

ScaleRect(r, s) ==
    [x |-> r.x * s, y |-> r.y * s, width |-> r.width * s, height |-> r.height * s]

\* The scalable layout of one child: a node appends one entry per role, its
\* blob rectangles at the current scale in declared order, and marks the
\* buffer populated; a connection lays out a zero-sized placeholder and
\* leaves the buffer alone.
child_layout(st, child, s) ==
    IF child.kind = "Node"
    THEN [inputs  |-> Append(st.inputs,
                             [k \in 1..Len(child.inputs) |-> ScaleRect(child.inputs[k], s)]),
          outputs |-> Append(st.outputs,
                             [k \in 1..Len(child.outputs) |-> ScaleRect(child.outputs[k], s)]),
          done    |-> TRUE]
    ELSE st

RECURSIVE layout_children(_, _, _)
layout_children(st, i, s) ==
    IF i > Len(Content) THEN st
    ELSE layout_children(child_layout(st, Content[i], s), i + 1, s)

\* The layout pass without `socket_layout_state.clear()`.
layout_socket_state_no_clear(st) == layout_children(st, 1, matrix.scale)

\* GraphContainer::layout: the buffer is cleared, then every child is laid
\* out at the matrix's scale.
layout_socket_state(st) == layout_children(clear(st), 1, matrix.scale)

\* ------------------------------------------------------------- on_event
\* Cursor::position_in: the cursor relative to the bounds' origin, when the
\* bounds contain it.
position_in(c, b) ==
    IF IsSome(c) /\ contains(b, Unwrap(c))
    THEN Some(Point(Unwrap(c).x - b.x, Unwrap(c).y - b.y))
    ELSE None

\* The sockets of one role in iteration order: node index ascending, socket
\* index ascending within a node.
RECURSIVE role_sockets(_, _, _)
role_sockets(role, node_sockets, n) ==
    IF n > Len(node_sockets) THEN << >>
    ELSE [k \in 1..Len(node_sockets[n]) |->
            [endpoint |-> LogicalEndpoint(n - 1, role, k - 1),
             blob_rect |-> node_sockets[n][k]]]
         \o role_sockets(role, node_sockets, n + 1)

\* The order in which the hit test visits the sockets: inputs, then outputs.
socket_order(st) ==
    role_sockets("In", st.inputs, 1) \o role_sockets("Out", st.outputs, 1)

Max(S) == CHOOSE m \in S : \A k \in S : k <= m

\* The hit test with a `break` at the first match: the first socket in
\* iteration order is kept.
hovered_socket_first_match(translated_cursor_position) ==
    LET order == socket_order(socket_state)
        hits == {k \in 1..Len(order) :
                    contains(order[k].blob_rect, translated_cursor_position)}
    IN  IF hits = {} THEN None ELSE Some(order[CHOOSE m \in hits : \A k \in hits : m <= k].endpoint)

\* The socket the point is over: every match overwrites hovered_socket, so
\* the last one in iteration order is kept.
hovered_socket(translated_cursor_position) ==
    LET order == socket_order(socket_state)
        hits == {k \in 1..Len(order) :
                    contains(order[k].blob_rect, translated_cursor_position)}
    IN  IF hits = {} THEN None ELSE Some(order[Max(hits)].endpoint)

publish(intent, msg) == IF intent \in handlers THEN <<msg>> ELSE << >>

\* try_emit_dangling building the link in the order given, without
\* Link::from_unordered.
try_emit_dangling_in_order(cursor_position, source) ==
    publish("on_dangling",
            DanglingMsg(Some([source |-> source,
                              link |-> Link(Socket(source),
                                            Absolute(cursor_position))])))

try_emit_dangling(cursor_position, source) ==
    publish("on_dangling",
            DanglingMsg(Some([source |-> source,
                              link |-> from_unordered(Socket(source),
                                                      Absolute(cursor_position))])))

\* The press arm with `status = event::Status::Captured` moved inside the
\* `if let Some(f)` of the handler: a press is captured only if published.
socket_left_pressed_captured_if_published(hovered, world) ==
    IF IsSome(hovered)
    THEN LET msgs == IF Unwrap(hovered).role = "In"
                     THEN publish("on_disconnect", DisconnectMsg(Unwrap(hovered), world))
                     ELSE try_emit_dangling(world, Unwrap(hovered))
         IN  [status |-> IF msgs = << >> THEN Ignored ELSE Captured, shell |-> msgs]
    ELSE [status |-> Ignored, shell |-> << >>]

\* The press arm dragging a new connection out of an input socket as well
\* (the Blender-like behaviour the comment at lines 335-338 leaves to the host).
socket_left_pressed_dangling_from_input(hovered, world) ==
    IF IsSome(hovered)
    THEN [status |-> Captured,
          shell  |-> IF Unwrap(hovered).role = "In"
                     THEN publish("on_disconnect", DisconnectMsg(Unwrap(hovered), world))
                          \o try_emit_dangling(world, Unwrap(hovered))
                     ELSE try_emit_dangling(world, Unwrap(hovered))]
    ELSE [status |-> Ignored, shell |-> << >>]

\* A left press in bounds: over an In socket on_disconnect, over an Out
\* socket a new dangling connection; captured whenever a socket is hovered.
socket_left_pressed(hovered, world) ==
    IF IsSome(hovered)
    THEN [status |-> Captured,
          shell  |-> IF Unwrap(hovered).role = "In"
                     THEN publish("on_disconnect", DisconnectMsg(Unwrap(hovered), world))
                     ELSE try_emit_dangling(world, Unwrap(hovered))]
    ELSE [status |-> Ignored, shell |-> << >>]

\* The cursor-moved arm without `status = event::Status::Captured`.
socket_cursor_moved_not_captured(world) ==
    IF IsSome(dangling_source)
    THEN [status |-> Ignored,
          shell  |-> try_emit_dangling(world, Unwrap(dangling_source))]
    ELSE [status |-> Ignored, shell |-> << >>]

\* A cursor move in bounds: the dangling connection, if there is one, follows.
socket_cursor_moved(world) ==
    IF IsSome(dangling_source)
    THEN [status |-> Captured,
          shell  |-> try_emit_dangling(world, Unwrap(dangling_source))]
    ELSE [status |-> Ignored, shell |-> << >>]

\* The release arm without the node_index comparison.
socket_left_released_same_node(hovered) ==
    IF IsSome(dangling_source)
    THEN [status |-> Captured,
          shell  |-> publish("on_dangling", DanglingMsg(None))
                     \o (IF /\ IsSome(hovered)
                            /\ Unwrap(dangling_source).role /= Unwrap(hovered).role
                         THEN publish("on_connect",
                                      ConnectMsg(from_unordered(Socket(Unwrap(dangling_source)),
                                                                Socket(Unwrap(hovered)))))
                         ELSE << >>)]
    ELSE [status |-> Ignored, shell |-> << >>]

\* The release arm without the role comparison.
socket_left_released_same_role(hovered) ==
    IF IsSome(dangling_source)
    THEN [status |-> Captured,
          shell  |-> publish("on_dangling", DanglingMsg(None))
                     \o (IF /\ IsSome(hovered)
                            /\ Unwrap(dangling_source).node_index /= Unwrap(hovered).node_index
                         THEN publish("on_connect",
                                      ConnectMsg(from_unordered(Socket(Unwrap(dangling_source)),
                                                                Socket(Unwrap(hovered)))))
                         ELSE << >>)]
    ELSE [status |-> Ignored, shell |-> << >>]

\* A left release in bounds with a dangling connection: it is removed, and a
\* connection is made to a hovered socket of the other role on another node.
socket_left_released(hovered) ==
    IF IsSome(dangling_source)
    THEN [status |-> Captured,
          shell  |-> publish("on_dangling", DanglingMsg(None))
                     \o (IF /\ IsSome(hovered)
                            /\ Unwrap(dangling_source).role /= Unwrap(hovered).role
                            /\ Unwrap(dangling_source).node_index /= Unwrap(hovered).node_index
                         THEN publish("on_connect",
                                      ConnectMsg(from_unordered(Socket(Unwrap(dangling_source)),
                                                                Socket(Unwrap(hovered)))))
                         ELSE << >>)]
    ELSE [status |-> Ignored, shell |-> << >>]

\* The hit-test point without the translation taken off.
translated_cursor_untranslated(cursor_position) == cursor_position

\* cursor_position - translation
translated_cursor(cursor_position) ==
    Point(cursor_position.x - matrix.tx, cursor_position.y - matrix.ty)

\* translated_cursor_position / scale
descaled_cursor(translated_cursor_position) ==
    Point(Rat(translated_cursor_position.x, matrix.scale),
          Rat(translated_cursor_position.y, matrix.scale))

\* Socket-related processing: only for a cursor inside the bounds.
socket_processing(ev, c) ==
    LET pos == position_in(c, Bounds)
    IN  IF IsSome(pos)
        THEN LET translated_cursor_position == translated_cursor(Unwrap(pos))
                 world == descaled_cursor(translated_cursor_position)
                 hovered == hovered_socket(translated_cursor_position)
             IN  CASE ev.kind = "LeftPressed" -> socket_left_pressed(hovered, world)
                   [] ev.kind = "CursorMoved" -> socket_cursor_moved(world)
                   [] ev.kind = "LeftReleased" -> socket_left_released(hovered)
                   [] OTHER -> [status |-> Ignored, shell |-> << >>]
        ELSE [status |-> Ignored, shell |-> << >>]

\* The drag branch without `state.drag_start_position = Some(cursor_position)`:
\* every delta is taken from the press point.
viewport_drag_from_press_point(ev, c, start) ==
    LET pos == position_in(c, Bounds)
        idle == [status |-> Ignored, shell |-> << >>, drag |-> Some(start)]
    IN  IF IsSome(pos)
        THEN CASE ev.kind = "LeftReleased" ->
                    [status |-> Ignored, shell |-> << >>, drag |-> None]
               [] ev.kind = "CursorMoved" ->
                    [status |-> Captured,
                     shell  |-> publish("on_translate",
                                        TranslateMsg(Unwrap(pos).x - start.x,
                                                     Unwrap(pos).y - start.y)),
                     drag   |-> Some(start)]
               [] OTHER -> idle
        ELSE idle

\* Moving the viewport: a drag is in progress (start is drag_start_position).
viewport_drag(ev, c, start) ==
    LET pos == position_in(c, Bounds)
        idle == [status |-> Ignored, shell |-> << >>, drag |-> Some(start)]
    IN  IF IsSome(pos)
        THEN CASE ev.kind = "LeftReleased" ->
                    [status |-> Ignored, shell |-> << >>, drag |-> None]
               [] ev.kind = "CursorMoved" ->
                    [status |-> Captured,
                     shell  |-> publish("on_translate",
                                        TranslateMsg(Unwrap(pos).x - start.x,
                                                     Unwrap(pos).y - start.y)),
                     drag   |-> pos]
               [] OTHER -> idle
        ELSE idle

\* The loop over the children without its `break`: every child is offered
\* the event, whatever the children before it answered.
child_delegation_no_break(resp, i) ==
    [status  |-> IF \E k \in 1..i : resp[k] = Captured THEN Captured ELSE Ignored,
     offered |-> [k \in 1..i |-> [child |-> i - k, answer |-> resp[i - k + 1]]]]

\* The children are offered the event in reverse storage order until one
\* captures it; resp[i] is what the child at storage index i - 1 answers.
\* offered lists the children asked, in the order asked, with their answers.
RECURSIVE child_delegation(_, _)
child_delegation(resp, i) ==
    IF i = 0 THEN [status |-> Ignored, offered |-> << >>]
    ELSE LET asked == [child |-> i - 1, answer |-> resp[i]]
         IN  IF merge(Ignored, resp[i]) = Captured
             THEN [status |-> Captured, offered |-> <<asked>>]
             ELSE LET rest == child_delegation(resp, i - 1)
                  IN  [status |-> rest.status, offered |-> <<asked>> \o rest.offered]

\* The initiation branch passing the window cursor, not the cursor relative
\* to the bounds, to on_scale.
viewport_initiation_window_cursor(ev, c, st, drag) ==
    LET pos == position_in(c, Bounds)
        idle == [status |-> st, shell |-> << >>, drag |-> drag, pan_started |-> FALSE]
    IN  IF st = Ignored /\ IsSome(pos)
        THEN CASE ev.kind = "LeftPressed" ->
                    [status |-> Captured, shell |-> << >>, drag |-> pos,
                     pan_started |-> TRUE]
               [] ev.kind = "WheelScrolled" ->
                    IF "on_scale" \in handlers
                    THEN [status |-> Captured,
                          shell  |-> publish("on_scale",
                                             ScaleMsg(Unwrap(c).x, Unwrap(c).y,
                                                      Unwrap(ev.delta).y)),
                          drag   |-> drag, pan_started |-> FALSE]
                    ELSE idle
               [] OTHER -> idle
        ELSE idle

\* The initiation branch without `if status == event::Status::Ignored`.
viewport_initiation_any_status(ev, c, st, drag) ==
    LET pos == position_in(c, Bounds)
        idle == [status |-> st, shell |-> << >>, drag |-> drag, pan_started |-> FALSE]
    IN  IF IsSome(pos)
        THEN CASE ev.kind = "LeftPressed" ->
                    [status |-> Captured, shell |-> << >>, drag |-> pos,
                     pan_started |-> TRUE]
               [] ev.kind = "WheelScrolled" ->
                    IF "on_scale" \in handlers
                    THEN [status |-> Captured,
                          shell  |-> publish("on_scale",
                                             ScaleMsg(Unwrap(pos).x, Unwrap(pos).y,
                                                      Unwrap(ev.delta).y)),
                          drag   |-> drag, pan_started |-> FALSE]
                    ELSE idle
               [] OTHER -> idle
        ELSE idle

\* Initiating viewport movement/scaling: only while the status is still
\* Ignored and the cursor is inside the bounds.
viewport_initiation(ev, c, st, drag) ==
    LET pos == position_in(c, Bounds)
        idle == [status |-> st, shell |-> << >>, drag |-> drag, pan_started |-> FALSE]
    IN  IF st = Ignored /\ IsSome(pos)
        THEN CASE ev.kind = "LeftPressed" ->
                    [status |-> Captured, shell |-> << >>, drag |-> pos,
                     pan_started |-> TRUE]
               [] ev.kind = "WheelScrolled" ->
                    IF "on_scale" \in handlers
                    THEN [status |-> Captured,
                          shell  |-> publish("on_scale",
                                             ScaleMsg(Unwrap(pos).x, Unwrap(pos).y,
                                                      Unwrap(ev.delta).y)),
                          drag   |-> drag, pan_started |-> FALSE]
                    ELSE idle
               [] OTHER -> idle
        ELSE idle

\* on_event without the `return status` after the socket block: a captured
\* event goes on to the drag branch or to the children.
on_event_no_early_return(ev, c, resp) ==
    LET sock == socket_processing(ev, c)
        mid == IF IsSome(drag_start_position)
               THEN viewport_drag(ev, c, Unwrap(drag_start_position))
                    @@ [offered |-> << >>]
               ELSE child_delegation(resp, Len(Content))
                    @@ [shell |-> << >>, drag |-> drag_start_position]
        st == merge(sock.status, mid.status)
        fin == viewport_initiation(ev, c, st, mid.drag)
    IN  [status |-> fin.status, shell |-> sock.shell \o mid.shell \o fin.shell,
         drag |-> fin.drag, offered |-> mid.offered,
         pan_started |-> fin.pan_started]

\* on_event with the loop over the children after the drag branch, not in
\* its `else`: the children are offered the event during a pan too.
on_event_children_during_drag(ev, c, resp) ==
    LET sock == socket_processing(ev, c)
    IN  IF sock.status = Captured
        THEN [status |-> Captured, shell |-> sock.shell, drag |-> drag_start_position,
              offered |-> << >>, pan_started |-> FALSE]
        ELSE LET pan == IF IsSome(drag_start_position)
                        THEN viewport_drag(ev, c, Unwrap(drag_start_position))
                        ELSE [status |-> Ignored, shell |-> << >>,
                              drag |-> drag_start_position]
                 kids == IF pan.status = Captured
                         THEN [status |-> Captured, offered |-> << >>]
                         ELSE child_delegation(resp, Len(Content))
                 fin == viewport_initiation(ev, c, kids.status, pan.drag)
             IN  [status |-> fin.status, shell |-> sock.shell \o pan.shell \o fin.shell,
                  drag |-> fin.drag, offered |-> kids.offered,
                  pan_started |-> fin.pan_started]

\* GraphContainer::on_event: what the call returns, publishes, leaves in
\* drag_start_position and which children it offers the event.
on_event(ev, c, resp) ==
    LET sock == socket_processing(ev, c)
    IN  IF sock.status = Captured
        THEN [status |-> Captured, shell |-> sock.shell, drag |-> drag_start_position,
              offered |-> << >>, pan_started |-> FALSE]
        ELSE LET mid == IF IsSome(drag_start_position)
                        THEN viewport_drag(ev, c, Unwrap(drag_start_position))
                             @@ [offered |-> << >>]
                        ELSE child_delegation(resp, Len(Content))
                             @@ [shell |-> << >>, drag |-> drag_start_position]
                 fin == viewport_initiation(ev, c, mid.status, mid.drag)
             IN  [status |-> fin.status, shell |-> sock.shell \o mid.shell \o fin.shell,
                  drag |-> fin.drag, offered |-> mid.offered,
                  pan_started |-> fin.pan_started]

\* ------------------------------------------------------------- actions
\* The handlers the host's view function configures: all five, all but one,
\* or none (each handler guards only its own publish).
HandlerSets == {Intents, {}} \cup {Intents \ {h} : h \in Intents}

\* What the host may pass to dangling_source().
DanglingSources == {None} \cup {Some(e) : e \in SceneEndpoints}

NoEvent ==
    /\ event' = None
    /\ cursor' = None
    /\ status' = Ignored
    /\ shell' = << >>
    /\ offered' = << >>

\* The view the host first builds: GraphContainer::new followed by the
\* builder calls the host's view function makes.
Init ==
    /\ matrix \in Matrices
    /\ dangling_source \in DanglingSources
    /\ handlers \in HandlerSets
    /\ socket_state = EmptySocketState
    /\ drag_start_position = None
    /\ phase = "built"
    /\ event = None
    /\ cursor = None
    /\ status = Ignored
    /\ shell = << >>
    /\ offered = << >>
    /\ pan_published = None
    /\ args = None
    /\ result = None

\* The host rebuilds the view from its state: a new container with a fresh
\* socket buffer, the host's current matrix and dangling source and the same
\* handlers; the widget tree keeps drag_start_position.
View ==
    /\ event = None
    /\ matrix' \in Matrices
    /\ dangling_source' \in DanglingSources
    /\ socket_state' = EmptySocketState
    /\ phase' = "built"
    /\ NoEvent
    /\ UNCHANGED <<handlers, drag_start_position, pan_published, args, result>>

\* GraphContainer::layout
Layout ==
    /\ event = None
    /\ socket_state' = layout_socket_state(socket_state)
    /\ phase' = "laid_out"
    /\ UNCHANGED <<matrix, dangling_source, handlers, drag_start_position,
                   event, cursor, status, shell, offered, pan_published, args, result>>

\* The press point of a pan plus the deltas published since.
RECURSIVE pan_after(_, _)
pan_after(pan, msgs) ==
    IF msgs = << >> THEN pan
    ELSE LET m == Head(msgs)
         IN  pan_after(IF m.intent = "on_translate" /\ IsSome(pan)
                       THEN Some(Point(Unwrap(pan).x + m.delta.x,
                                       Unwrap(pan).y + m.delta.y))
                       ELSE pan,
                       Tail(msgs))

\* What the children answer when offered an event; a child that is not
\* offered the event answers nothing.
ChildAnswers == [1..Len(Content) -> {Ignored, Captured}]
NoAnswer == [i \in 1..Len(Content) |-> Ignored]

\* Whether on_event reaches the loop over the children: socket handling did
\* not capture and no viewport drag is in progress.
delegates(ev, c) ==
    /\ socket_processing(ev, c).status /= Captured
    /\ ~IsSome(drag_start_position)

\* on_event never assigns self.matrix or self.dangling_source: whatever the
\* call published (r), both are what the host supplied.
\* on_event composing the translation it publishes into its own matrix.
on_event_matrix_panned(r) ==
    IF r.shell /= << >> /\ r.shell[1].intent = "on_translate"
    THEN [matrix EXCEPT !.tx = @ + r.shell[1].delta.x, !.ty = @ + r.shell[1].delta.y]
    ELSE matrix

on_event_matrix(r) == matrix
on_event_dangling_source(r) == dangling_source

\* on_event taking the rectangles out of the buffer as it reads them.
on_event_socket_state_taken(r) == EmptySocketState

\* on_event locks the socket buffer and only reads inputs and outputs for
\* the hit test: the buffer is after the call what it was before.
on_event_socket_state(r) == socket_state

\* GraphContainer::on_event on a laid out container, for any event, cursor
\* and answers of the children.
OnEvent ==
    /\ phase = "laid_out"
    /\ event = None
    /\ \E ev \in Events, c \in Cursors :
       \E resp \in (IF delegates(ev, c) THEN ChildAnswers ELSE {NoAnswer}) :
          LET r == on_event(ev, c, resp)
          IN  /\ event' = Some(ev)
              /\ cursor' = c
              /\ status' = r.status
              /\ shell' = r.shell
              /\ offered' = r.offered
              /\ drag_start_position' = r.drag
              /\ pan_published' = IF r.pan_started THEN r.drag
                                  ELSE IF r.drag = None THEN None
                                  ELSE pan_after(pan_published, r.shell)
              /\ matrix' = on_event_matrix(r)
              /\ dangling_source' = on_event_dangling_source(r)
              /\ socket_state' = on_event_socket_state(r)
    /\ UNCHANGED <<handlers, phase, args, result>>

\* The runtime takes the status and drains the shell into the host's update.
Dispatch ==
    /\ event /= None
    /\ NoEvent
    /\ UNCHANGED <<matrix, dangling_source, handlers, socket_state,
                   drag_start_position, phase, pan_published, args, result>>

\* GraphContainer::draw takes the container by shared reference and paints.
Draw ==
    /\ phase = "laid_out"
    /\ UNCHANGED vars

Next == View \/ Layout \/ OnEvent \/ Dispatch \/ Draw

Spec == Init /\ [][Next]_vars

\* ------------------------------------------------------------- helper functions
\* The helper functions are applied on their own to arguments drawn from
\* small sets; the container is the one just built by a host that
\* configures nothing and is not touched.
Untouched ==
    /\ matrix = [scale |-> 1, tx |-> 0, ty |-> 0]
    /\ dangling_source = None
    /\ handlers = {}
    /\ socket_state = EmptySocketState
    /\ drag_start_position = None
    /\ phase = "built"
    /\ event = None
    /\ cursor = None
    /\ status = Ignored
    /\ shell = << >>
    /\ offered = << >>
    /\ pan_published = None

container == <<matrix, dangling_source, handlers, socket_state, drag_start_position,
               phase, event, cursor, status, shell, offered, pan_published>>

\* The endpoints handed to Link::from_unordered: sockets of either role and
\* absolute points.
LinkEndpoints ==
    {Socket(LogicalEndpoint(n, r, k)) :
        n \in 0..(Len(Content) - 1), r \in {"In", "Out"}, k \in 0..MaxSocket}
    \cup {Absolute(Point(px, py)) : px \in 0..MaxX, py \in 0..MaxY}

InitLink ==
    /\ Untouched
    /\ args \in [a : LinkEndpoints, b : LinkEndpoints]
    /\ result = None

\* Link::from_unordered applied to the two endpoints in either order.
FromUnordered ==
    /\ result = None
    /\ result' = Some([ab |-> from_unordered(args.a, args.b),
                       ba |-> from_unordered(args.b, args.a)])
    /\ UNCHANGED <<container, args>>

NextLink == FromUnordered

SpecLink == InitLink /\ [][NextLink]_vars

\* An f32 scale: [m, e] is the value m * 2^(e - 23) with a 24-bit
\* significand, 2^23 <= m < 2^24.
F32(m, e) == [m |-> m, e |-> e]

RECURSIVE ilog2(_)
ilog2(n) == IF n < 2 THEN 0 ELSE 1 + ilog2(n \div 2)

\* Half the distance between neighbouring f32 values next to the integer v
\* on the side of v - 1, in units of 2^-28.
half_ulp_below(v) ==
    LET j == ilog2(Abs(v))
    IN  IF v > 0 /\ 2^j = v THEN 2^(j + 3) ELSE 2^(j + 4)

\* scale.log2().floor(): the logarithm of [m, e] is e + log2(m / 2^23), less
\* than e + 1 by -log2(1 - d / 2^24) for d = 2^24 - m, which is d * 23.08
\* units of 2^-28 for a small d.  f32::log2 rounds it to the nearest f32:
\* that is e + 1 itself when the logarithm is closer to e + 1 than half the
\* f32 spacing there (never next to 0, where the spacing is finer than any
\* logarithm of a scale).
log2_floor(scale) ==
    LET d == 2^24 - scale.m
        v == scale.e + 1
    IN  IF v /= 0 /\ d <= 2^6 /\ d * 2308 < half_ulp_below(v) * 100
        THEN v
        ELSE scale.e

\* normalize_scale: f32::EPSILON is 2^-23; dividing by 2.0.powf(log_2)
\* lowers the exponent by log_2 and keeps the significand.
normalize_scale(scale) ==
    LET log_2 == log2_floor(scale)
    IN  IF Abs(log_2) * 2^23 > 1
        THEN F32(scale.m, scale.e - log_2)
        ELSE scale

\* The scales tried: 1, 1.25, 1.5 and 1.75 times a power of two, and the
\* f32 values next to a power of two.
Significands ==
    {2^23, 2^23 + 1, 5 * 2^21, 3 * 2^22, 7 * 2^21, 2^24 - 3, 2^24 - 2, 2^24 - 1}

Scales == {F32(m, e) : m \in Significands, e \in (-MaxExp)..MaxExp}

InitScale ==
    /\ Untouched
    /\ args \in Scales
    /\ result = None

NormalizeScale ==
    /\ result = None
    /\ result' = Some(normalize_scale(args))
    /\ UNCHANGED <<container, args>>

NextScale == NormalizeScale

SpecScale == InitScale /\ [][NextScale]_vars

\* ------------------------------------------------------------- draw
\* layout.bounds() of the container, in 1/Sub of a pixel.
DrawBounds ==
    [x |-> Bounds.x * Sub, y |-> Bounds.y * Sub,
     width |-> Bounds.width * Sub, height |-> Bounds.height * Sub]

\* The layout bounds of a node: left of the container, at its left edge,
\* reaching 1/Sub of a pixel into its right edge or starting at it; at its
\* top edge or reaching 1/Sub of a pixel into its bottom edge; 1/Sub of a
\* pixel or a pixel wide and high.
NodeBounds ==
    {[x |-> px, y |-> py, width |-> w, height |-> h] :
        px \in {DrawBounds.x - Sub, DrawBounds.x,
                DrawBounds.x + DrawBounds.width - 1, DrawBounds.x + DrawBounds.width},
        py \in {DrawBounds.y, DrawBounds.y + DrawBounds.height - 1},
        w \in {1, Sub},
        h \in {1, Sub}}

\* The children of the container as draw meets them: nodes with their
\* layout bounds, and connections, whose layout is a zero-sized placeholder
\* inside or left of the container and whose endpoints resolve or do not.
DrawnContent ==
    {[kind |-> "Node", resolves |-> TRUE, bounds |-> r] : r \in NodeBounds}
    \cup {[kind |-> "Connection", resolves |-> b,
           bounds |-> [x |-> px, y |-> DrawBounds.y, width |-> 0, height |-> 0]] :
             b \in BOOLEAN, px \in {DrawBounds.x - Sub, DrawBounds.x + 1}}

\* iced's Rectangle::intersection: None unless the overlap has a positive
\* width and height.
intersection(a, b) ==
    LET px == IF a.x > b.x THEN a.x ELSE b.x
        py == IF a.y > b.y THEN a.y ELSE b.y
        lower_right_x == IF a.x + a.width < b.x + b.width
                         THEN a.x + a.width ELSE b.x + b.width
        lower_right_y == IF a.y + a.height < b.y + b.height
                         THEN a.y + a.height ELSE b.y + b.height
    IN  IF lower_right_x - px > 0 /\ lower_right_y - py > 0
        THEN Some([x |-> px, y |-> py,
                   width |-> lower_right_x - px, height |-> lower_right_y - py])
        ELSE None

\* The loop over the children painting every child whose bounds intersect
\* the container's, however thin the intersection.
RECURSIVE draw_children_any_intersection(_, _)
draw_children_any_intersection(children, i) ==
    IF i > Len(children) THEN << >>
    ELSE (IF IsSome(intersection(children[i].bounds, DrawBounds))
          THEN << [op |-> "child", index |-> i - 1] >>
          ELSE << >>)
         \o draw_children_any_intersection(children, i + 1)

\* The loop over the children in draw, from the child at index i - 1 on:
\* the calls of node.draw it makes.
RECURSIVE draw_children(_, _)
draw_children(children, i) ==
    IF i > Len(children) THEN << >>
    ELSE LET intersect == intersection(children[i].bounds, DrawBounds)
         IN  (IF intersect = None
              THEN << >>
              ELSE IF Unwrap(intersect).width < Sub \/ Unwrap(intersect).height < Sub
                   THEN << >>
                   ELSE << [op |-> "child", index |-> i - 1] >>)
             \o draw_children(children, i + 1)

\* GraphContainer::draw: the background, the three guideline grids, then the
\* children.
draw(children) ==
    << [op |-> "background", index |-> 0],
       [op |-> "guidelines", index |-> 0],
       [op |-> "guidelines", index |-> 1],
       [op |-> "guidelines", index |-> 2] >>
    \o draw_children(children, 1)

InitDraw ==
    /\ Untouched
    /\ args \in [1..DrawnChildren -> DrawnContent]
    /\ result = None

DrawContent ==
    /\ result = None
    /\ result' = Some(draw(args))
    /\ UNCHANGED <<container, args>>

NextDraw == DrawContent

SpecDraw == InitDraw /\ [][NextDraw]_vars

\* ------------------------------------------------------------- draw_guidelines
\* Lengths are whole numbers of 1/Sub of a pixel; a normalized scale is
\* k / Sub for Sub <= k < 2 * Sub and is given as k.
GridBounds == [x |-> 1, y |-> 2, width |-> GridSpan, height |-> GridSpan]

\* The f32 `%`: the remainder has the sign of the dividend.
rem(a, b) == IF a >= 0 THEN a % b ELSE -((-a) % b)

\* ((to - from) / step).abs().ceil()
number_of_steps(from, to, step) == (Abs(to - from) + step - 1) \div step

\* One loop of draw_guidelines with every position drawn, the ones on or
\* outside the bounds' edges too.
guideline_loop_unclipped(axis, origin, length, offset, edge, step) ==
    LET from == -edge + rem(offset * Sub, edge) + origin * Sub
        to == origin * Sub + length * Sub + edge
    IN  [k \in 1..number_of_steps(from, to, step) |->
            [axis |-> axis, at |-> from + (k - 1) * step]]

\* One loop of draw_guidelines: the 1-pixel quads filled along one axis,
\* origin and length being the bounds' near edge and extent on it.
guideline_loop(axis, origin, length, offset, edge, step) ==
    LET from == -edge + rem(offset * Sub, edge) + origin * Sub
        to == origin * Sub + length * Sub + edge
        candidates == [k \in 1..number_of_steps(from, to, step) |->
                          [axis |-> axis, at |-> from + (k - 1) * step]]
        drawn(q) == ~(q.at <= origin * Sub \/ q.at >= origin * Sub + length * Sub)
    IN  SelectSeq(candidates, drawn)

\* draw_guidelines: nothing when grid_spacing * scale < 5, else the
\* vertical lines and then the horizontal ones.
draw_guidelines(bounds, offset, scale, grid_spacing, biggest_grid_spacing) ==
    IF grid_spacing * scale < 5 * Sub
    THEN << >>
    ELSE guideline_loop("x", bounds.x, bounds.width, offset.x,
                        biggest_grid_spacing * scale, grid_spacing * scale)
         \o guideline_loop("y", bounds.y, bounds.height, offset.y,
                            biggest_grid_spacing * scale, grid_spacing * scale)

\* The minor, mid and major spacings of the styles tried.
GridStyles == {<<3, 6, 12>>, <<5, 6, 12>>, <<5, 7, 12>>}

\* The three calls of draw_guidelines in draw, with the biggest spacing.
draw_grids(offset, scale, style) ==
    LET biggest_spacing == Max({style[1], style[2], style[3]})
    IN  [g \in 1..3 |-> draw_guidelines(GridBounds, offset, scale, style[g],
                                         biggest_spacing)]

InitGrid ==
    /\ Untouched
    /\ args \in [offset : {Point(ox, oy) : ox \in (-MaxOffset)..MaxOffset,
                                           oy \in {-1, 0, 1}},
                  scale : Sub..(2 * Sub - 1),
                  style : GridStyles]
    /\ result = None

DrawGrids ==
    /\ result = None
    /\ result' = Some(draw_grids(args.offset, args.scale, args.style))
    /\ UNCHANGED <<container, args>>

NextGrid == DrawGrids

SpecGrid == InitGrid /\ [][NextGrid]_vars

\* ------------------------------------------------------------- properties
\* What the last on_event call was given, read off the recorded call.
Is(kind) == IsSome(event) /\ Unwrap(event).kind = kind

\* The cursor of the last call lies inside the layout bounds.
InBounds ==
    /\ IsSome(cursor)
    /\ Bounds.x <= Unwrap(cursor).x /\ Unwrap(cursor).x < Bounds.x + Bounds.width
    /\ Bounds.y <= Unwrap(cursor).y /\ Unwrap(cursor).y < Bounds.y + Bounds.height

\* cursor - bounds.origin, cursor - bounds.origin - translation, and that
\* divided by the scale, for a cursor inside the bounds.
CursorInContainer == Point(Unwrap(cursor).x - Bounds.x, Unwrap(cursor).y - Bounds.y)
PreTranslation ==
    Point(CursorInContainer.x - matrix.tx, CursorInContainer.y - matrix.ty)
World ==
    Point(Rat(PreTranslation.x, matrix.scale), Rat(PreTranslation.y, matrix.scale))

\* The socket under the cursor of the last call: the last socket, inputs
\* before outputs, whose blob rectangle holds the pre-translation point.
Hovered == IF InBounds THEN hovered_socket(PreTranslation) ELSE None

IntentsOf(msgs) == [k \in 1..Len(msgs) |-> msgs[k].intent]
Published(intent) == \E k \in 1..Len(shell) : shell[k].intent = intent

\* The cursor of a release is over a socket the dangling source may connect to.
Connectable ==
    /\ IsSome(dangling_source)
    /\ IsSome(Hovered)
    /\ Unwrap(Hovered).role /= Unwrap(dangling_source).role
    /\ Unwrap(Hovered).node_index /= Unwrap(dangling_source).node_index

\* C1: every left release while dangling_source is Some publishes
\* on_dangling(None) and returns Captured, whatever the cursor position
\* (stated for a configured on_dangling handler).
C1_ReleaseAlwaysCancels ==
    (Is("LeftReleased") /\ IsSome(dangling_source) /\ "on_dangling" \in handlers)
        => /\ status = Captured
           /\ \E k \in 1..Len(shell) : shell[k] = DanglingMsg(None)

\* C2 as stated: on a left release while dangling_source is Some, on_connect
\* is published iff the cursor is over a socket of the other role on another
\* node; it then follows on_dangling(None), and otherwise on_dangling(None)
\* is the only message.
C2_ConnectIffCompatible ==
    (Is("LeftReleased") /\ IsSome(dangling_source))
        => /\ Published("on_connect") <=> Connectable
           /\ Published("on_connect") => IntentsOf(shell) = <<"on_dangling", "on_connect">>
           /\ ~Connectable => shell = <<DanglingMsg(None)>>

\* C2 amended: on a left release inside the bounds while dangling_source is
\* Some, the messages are on_dangling(None) when on_dangling is configured,
\* followed by on_connect when on_connect is configured and the cursor is
\* over a socket of the other role on another node, and nothing else; outside
\* the bounds the container publishes nothing.
C2_ConnectIffCompatibleConfigured ==
    (Is("LeftReleased") /\ IsSome(dangling_source))
        => /\ IntentsOf(shell) =
                (IF InBounds /\ "on_dangling" \in handlers
                 THEN <<"on_dangling">> ELSE << >>)
                \o (IF Connectable /\ "on_connect" \in handlers
                    THEN <<"on_connect">> ELSE << >>)
           /\ \A k \in 1..Len(shell) :
                shell[k].intent = "on_dangling" => shell[k].value = None

\* A release made a connection after cancelling the draft.
C2_Witness ==
    /\ Is("LeftReleased")
    /\ Connectable
    /\ IntentsOf(shell) = <<"on_dangling", "on_connect">>

\* C3: every link published through on_connect runs from an Out socket to an
\* In socket of another node.
C3_ConnectOutToIn ==
    \A k \in 1..Len(shell) :
        shell[k].intent = "on_connect"
            => /\ shell[k].link.from.tag = "Socket"
               /\ shell[k].link.from.endpoint.role = "Out"
               /\ shell[k].link.to.tag = "Socket"
               /\ shell[k].link.to.endpoint.role = "In"
               /\ shell[k].link.from.endpoint.node_index
                    /= shell[k].link.to.endpoint.node_index

\* A connection was published for a draft that started at an In socket, so
\* the dangling source ends up second.
C3_Witness ==
    /\ IsSome(dangling_source)
    /\ Unwrap(dangling_source).role = "In"
    /\ \E k \in 1..Len(shell) :
        /\ shell[k].intent = "on_connect"
        /\ shell[k].link.to = Socket(Unwrap(dangling_source))

\* C4 as stated: given dangling_source = Some(s), every cursor-moved event is
\* Captured and publishes exactly one message, on_dangling(Some((s, _))); and
\* on_connect is published by left releases only.
C4_MoveRepublishes ==
    /\ (Is("CursorMoved") /\ IsSome(dangling_source))
        => /\ status = Captured
           /\ Len(shell) = 1
           /\ shell[1].intent = "on_dangling"
           /\ IsSome(shell[1].value)
           /\ Unwrap(shell[1].value).source = Unwrap(dangling_source)
    /\ Published("on_connect") => Is("LeftReleased")

\* C4 amended: given dangling_source = Some(s), every cursor-moved event with
\* the cursor inside the bounds is Captured and publishes exactly one
\* message, on_dangling(Some((s, _))), when on_dangling is configured and
\* none otherwise; a move outside the bounds publishes no on_dangling; and
\* on_connect is published by left releases only.
C4_MoveInBoundsRepublishes ==
    /\ (Is("CursorMoved") /\ IsSome(dangling_source) /\ InBounds)
        => /\ status = Captured
           /\ IF "on_dangling" \in handlers
              THEN /\ Len(shell) = 1
                   /\ shell[1].intent = "on_dangling"
                   /\ IsSome(shell[1].value)
                   /\ Unwrap(shell[1].value).source = Unwrap(dangling_source)
              ELSE shell = << >>
    /\ (Is("CursorMoved") /\ ~InBounds) => ~Published("on_dangling")
    /\ Published("on_connect") => Is("LeftReleased")

\* A move republished the draft.
C4_Witness ==
    /\ Is("CursorMoved")
    /\ IsSome(dangling_source)
    /\ InBounds
    /\ Len(shell) = 1
    /\ shell[1].intent = "on_dangling"

\* C5 as stated: the link a cursor move publishes for dangling_source =
\* Some(s) is Link(Socket(s), Absolute(world)) for s of either role.
C5_SourceFirst ==
    (Is("CursorMoved") /\ IsSome(dangling_source) /\ Published("on_dangling"))
        => Unwrap(shell[1].value).link
            = Link(Socket(Unwrap(dangling_source)), Absolute(World))

\* C5 amended: the link is Link(Socket(s), Absolute(world)) for s of role
\* Out and Link(Absolute(world), Socket(s)) for s of role In.
C5_OutLikeFirst ==
    (Is("CursorMoved") /\ IsSome(dangling_source) /\ Published("on_dangling"))
        => Unwrap(shell[1].value).link
            = IF Unwrap(dangling_source).role = "Out"
              THEN Link(Socket(Unwrap(dangling_source)), Absolute(World))
              ELSE Link(Absolute(World), Socket(Unwrap(dangling_source)))

\* A draft from an In socket followed the cursor to a point that is not on
\* the integer grid after descaling.
C5_Witness ==
    /\ Is("CursorMoved")
    /\ IsSome(dangling_source)
    /\ Unwrap(dangling_source).role = "In"
    /\ Published("on_dangling")
    /\ InBounds
    /\ World.x.d = 2

\* No child that was offered the last event captured it.
NoChildCaptured == \A k \in 1..Len(offered) : offered[k].answer = Ignored

\* The step is a call of on_event.
IsCall == event = None /\ event' /= None

\* C6: a left press with the cursor over a socket blob returns Captured and
\* leaves drag_start_position as it was, whatever handlers are configured.
C6_SocketPressCaptured ==
    [][(IsCall /\ Is("LeftPressed")' /\ IsSome(Hovered'))
        => /\ status' = Captured
           /\ drag_start_position' = drag_start_position]_vars

\* A press over an In socket was captured though on_disconnect is not
\* configured, and no pan was started.
C6_Witness ==
    /\ Is("LeftPressed")
    /\ IsSome(Hovered)
    /\ Unwrap(Hovered).role = "In"
    /\ "on_disconnect" \notin handlers
    /\ status = Captured
    /\ drag_start_position = None

\* C7 as stated: a left press over a socket publishes exactly one message,
\* on_disconnect(e, world) over an In socket e and
\* on_dangling(Some((e, Link(Socket(e), Absolute(world))))) over an Out one.
C7_PressPublishesByRole ==
    (Is("LeftPressed") /\ IsSome(Hovered))
        => shell = IF Unwrap(Hovered).role = "In"
                   THEN <<DisconnectMsg(Unwrap(Hovered), World)>>
                   ELSE <<DanglingMsg(Some([source |-> Unwrap(Hovered),
                                            link |-> Link(Socket(Unwrap(Hovered)),
                                                          Absolute(World))]))>>

\* C7 amended: the one message is published when the handler of the
\* socket's role is configured (on_disconnect for In, on_dangling for Out);
\* when it is not, the press publishes nothing.
C7_PressPublishesByRoleConfigured ==
    (Is("LeftPressed") /\ IsSome(Hovered))
        => shell = IF Unwrap(Hovered).role = "In"
                   THEN IF "on_disconnect" \in handlers
                        THEN <<DisconnectMsg(Unwrap(Hovered), World)>>
                        ELSE << >>
                   ELSE IF "on_dangling" \in handlers
                        THEN <<DanglingMsg(Some([source |-> Unwrap(Hovered),
                                                 link |-> Link(Socket(Unwrap(Hovered)),
                                                               Absolute(World))]))>>
                        ELSE << >>

\* A press over an In socket at scale 2 published on_disconnect alone.
C7_Witness ==
    /\ Is("LeftPressed")
    /\ IsSome(Hovered)
    /\ Unwrap(Hovered).role = "In"
    /\ matrix.scale = 2
    /\ Len(shell) = 1
    /\ shell[1].intent = "on_disconnect"

\* The three events of a pan with dangling_source unset: what each publishes
\* (moved is the shell of a move from q to p) and leaves in
\* drag_start_position.
PanGesture(moved(_, _)) ==
    (IsCall /\ dangling_source = None /\ InBounds')
        => /\ (Is("LeftPressed")' /\ Hovered' = None /\ NoChildCaptured')
                => /\ drag_start_position' = Some(CursorInContainer')
                   /\ shell' = << >>
           /\ (Is("CursorMoved")' /\ IsSome(drag_start_position))
                => /\ shell' = moved(Unwrap(drag_start_position), CursorInContainer')
                   /\ drag_start_position' = Some(CursorInContainer')
           /\ (Is("LeftReleased")' /\ IsSome(drag_start_position))
                => /\ drag_start_position' = None
                   /\ shell' = << >>

DeltaMsg(q, p) == <<TranslateMsg(p.x - q.x, p.y - q.y)>>
DeltaMsgIfConfigured(q, p) ==
    IF "on_translate" \in handlers THEN DeltaMsg(q, p) ELSE << >>

\* C8 as stated: an unclaimed in-bounds press starts the pan, every in-bounds
\* move publishes exactly one on_translate(p - previous) and advances
\* drag_start_position to p, the press point plus the published deltas is
\* the current cursor, and the in-bounds release clears the state and
\* publishes nothing.
C8_PanPublishesDeltas ==
    [][/\ PanGesture(DeltaMsg)
       /\ IsSome(drag_start_position') => pan_published' = drag_start_position']_vars

\* C8 amended: the same with on_translate configured; without the handler
\* the moves publish nothing while drag_start_position still advances.
C8_PanPublishesDeltasConfigured ==
    [][/\ PanGesture(DeltaMsgIfConfigured)
       /\ ("on_translate" \in handlers /\ IsSome(drag_start_position'))
            => pan_published' = drag_start_position']_vars

\* A pan move published a non-zero delta and the deltas add up to the cursor.
C8_Witness ==
    /\ Is("CursorMoved")
    /\ dangling_source = None
    /\ Len(shell) = 1
    /\ shell[1].intent = "on_translate"
    /\ shell[1].delta /= Point(0, 0)
    /\ drag_start_position = Some(CursorInContainer)
    /\ pan_published = drag_start_position

\* C9 as stated: an in-bounds wheel scroll no child captured publishes
\* exactly one on_scale(cursor.x, cursor.y, dy), the cursor taken relative to
\* the bounds, and is Captured.
C9_WheelPublishesScale ==
    (Is("WheelScrolled") /\ InBounds /\ NoChildCaptured)
        => /\ shell = <<ScaleMsg(CursorInContainer.x, CursorInContainer.y,
                                 Unwrap(Unwrap(event).delta).y)>>
           /\ status = Captured

\* C9 amended: so it is when on_scale is configured; when it is not, nothing
\* is published and the event is Ignored.
C9_WheelPublishesScaleConfigured ==
    (Is("WheelScrolled") /\ InBounds /\ NoChildCaptured)
        => IF "on_scale" \in handlers
           THEN /\ shell = <<ScaleMsg(CursorInContainer.x, CursorInContainer.y,
                                      Unwrap(Unwrap(event).delta).y)>>
                /\ status = Captured
           ELSE /\ shell = << >>
                /\ status = Ignored

\* A wheel scroll in pixels, downwards, published on_scale.
C9_Witness ==
    /\ Is("WheelScrolled")
    /\ Unwrap(Unwrap(event).delta).unit = "Pixels"
    /\ Unwrap(Unwrap(event).delta).y < 0
    /\ Len(shell) = 1
    /\ shell[1].intent = "on_scale"
    /\ status = Captured

\* C10: matrix and dangling_source change only in a step in which the host
\* builds a new view: never in layout, on_event or draw.
C10_HostOwnsMatrixAndSource ==
    [][(matrix' /= matrix \/ dangling_source' /= dangling_source) => View]_vars

\* A pan move and its on_translate were published while the matrix is still
\* the identity.
C10_Witness ==
    /\ Published("on_translate")
    /\ shell[1].delta /= Point(0, 0)
    /\ matrix = [scale |-> 1, tx |-> 0, ty |-> 0]

\* C11: the children offered an event are the last child of content first,
\* then downwards without a gap, and every child offered before another one
\* ignored the event: the child at index j is offered it only if every child
\* of a greater index ignored it, and the offering stops at a capture only.
C11_ReverseOrderUntilCapture ==
    /\ \A k \in 1..Len(offered) : offered[k].child = Len(Content) - k
    /\ \A k \in 1..Len(offered) :
          \A j \in 1..Len(offered) :
             offered[j].child > offered[k].child => offered[j].answer = Ignored
    /\ NoChildCaptured => Len(offered) \in {0, Len(Content)}

\* The topmost child ignored a press, the one below captured it and the
\* bottom child was not offered it.
C11_Witness ==
    /\ Is("LeftPressed")
    /\ Len(offered) = 2
    /\ offered[1] = [child |-> 2, answer |-> Ignored]
    /\ offered[2] = [child |-> 1, answer |-> Captured]
    /\ status = Captured

\* The sockets whose rectangle in the buffer holds the pre-translation point
\* of the last call.
Matching ==
    {e \in [node_index : 0..(Len(Content) - 1), role : {"In", "Out"}, socket_index : 0..1] :
        LET side == IF e.role = "In" THEN socket_state.inputs ELSE socket_state.outputs
        IN  /\ e.node_index + 1 \in DOMAIN side
            /\ e.socket_index + 1 \in DOMAIN side[e.node_index + 1]
            /\ contains(side[e.node_index + 1][e.socket_index + 1], PreTranslation)}

\* e comes before f in the iteration order: inputs before outputs, then
\* node index ascending, then socket index ascending.
Before(e, f) ==
    \/ e.role = "In" /\ f.role = "Out"
    \/ e.role = f.role /\ e.node_index < f.node_index
    \/ e.role = f.role /\ e.node_index = f.node_index /\ e.socket_index < f.socket_index

\* The socket a press told the host about.
PressedSocket ==
    IF shell[1].intent = "on_disconnect" THEN shell[1].endpoint
    ELSE Unwrap(shell[1].value).source

\* C12: a press inside the bounds, with the handlers of both roles
\* configured, names the one matching socket that every other matching
\* socket comes before (so an Out socket whenever one matches); when no
\* rectangle holds the point it names no socket.
C12_LastMatchWins ==
    (Is("LeftPressed") /\ InBounds /\ {"on_disconnect", "on_dangling"} \subseteq handlers)
        => IF Matching = {}
           THEN shell = << >>
           ELSE /\ Len(shell) = 1
                /\ shell[1].intent \in {"on_disconnect", "on_dangling"}
                /\ PressedSocket \in Matching
                /\ \A e \in Matching \ {PressedSocket} : Before(e, PressedSocket)
                /\ (\E e \in Matching : e.role = "Out") => PressedSocket.role = "Out"

\* The point of a press lay in both In rectangles of node 0 and the press
\* named the second one.
C12_Witness ==
    /\ Is("LeftPressed")
    /\ InBounds
    /\ Matching = {LogicalEndpoint(0, "In", 0), LogicalEndpoint(0, "In", 1)}
    /\ Len(shell) = 1
    /\ shell[1].intent = "on_disconnect"
    /\ shell[1].endpoint = LogicalEndpoint(0, "In", 1)

\* C13: for an Out socket and an In socket, from_unordered gives the same
\* link in either order of the arguments, and the link's first endpoint is
\* the Out socket (its second the In socket).
C13_OutInOrderInsensitive ==
    \A out \in {"a", "b"} :
       LET in == IF out = "a" THEN "b" ELSE "a"
       IN  (IsSome(result) /\ IsSocketOf(args[out], "Out") /\ IsSocketOf(args[in], "In"))
              => /\ Unwrap(result).ab = Unwrap(result).ba
                 /\ Unwrap(result).ab.from = args[out]
                 /\ Unwrap(result).ab.to = args[in]

\* from_unordered was given the In socket of node 1 first and the Out socket
\* of node 0 second, and put the Out socket first.
C13_Witness ==
    /\ IsSome(result)
    /\ args.a = Socket(LogicalEndpoint(1, "In", 0))
    /\ args.b = Socket(LogicalEndpoint(0, "Out", 0))
    /\ Unwrap(result).ab = Link(args.b, args.a)

\* The buffer holds, for the node at storage index i - 1, one rectangle per
\* socket of each role in declared order, at the scale s, and nothing else.
BufferOf(st, s) ==
    LET nodes == {i \in 1..Len(Content) : Content[i].kind = "Node"}
    IN  /\ DOMAIN st.inputs = nodes
        /\ DOMAIN st.outputs = nodes
        /\ \A i \in nodes :
              /\ Len(st.inputs[i]) = Len(Content[i].inputs)
              /\ Len(st.outputs[i]) = Len(Content[i].outputs)
              /\ \A k \in 1..Len(Content[i].inputs) :
                    st.inputs[i][k] = ScaleRect(Content[i].inputs[k], s)
              /\ \A k \in 1..Len(Content[i].outputs) :
                    st.outputs[i][k] = ScaleRect(Content[i].outputs[k], s)

\* C14: every layout pass leaves in the buffer exactly one entry per node
\* with one rectangle per socket in declared order, whatever the buffer held
\* before; a pass over a container already laid out leaves the buffer as
\* it was.
C14_LayoutRefillsBuffer ==
    [][Layout => /\ BufferOf(socket_state', matrix.scale)
                 /\ phase = "laid_out" => socket_state' = socket_state]_vars

\* The buffer after layout at scale 2: two entries per role, the two In
\* rectangles of node 0 in declared order.
C14_Witness ==
    /\ phase = "laid_out"
    /\ matrix.scale = 2
    /\ Len(socket_state.inputs) = 2
    /\ Len(socket_state.outputs) = 2
    /\ socket_state.inputs[1] = << [x |-> 0, y |-> 0, width |-> 4, height |-> 4],
                                   [x |-> 0, y |-> 0, width |-> 2, height |-> 2] >>
    /\ socket_state.done

\* C15: whenever the container is in the phase in which the toolkit hands
\* it events and draws it, the buffer is the one the layout pass populated
\* (done is set, one entry per node at the matrix's scale), and a call of
\* on_event, like draw, leaves the buffer as it found it.
C15_BufferPopulatedAndStable ==
    [][/\ phase' = "laid_out"
            => socket_state'.done /\ BufferOf(socket_state', matrix'.scale)
       /\ (IsCall \/ Draw)
            => socket_state.done /\ socket_state' = socket_state]_vars

\* An on_event call found a socket under the cursor in the populated buffer
\* and left the buffer populated.
C15_Witness ==
    /\ event /= None
    /\ IsSome(Hovered)
    /\ phase = "laid_out"
    /\ socket_state.done
    /\ Len(socket_state.inputs) = 2
    /\ status = Captured

\* C16 as stated: normalize_scale(s) is s / 2^floor(log2 s), a value of
\* [1, 2) with the significand of s, for every scale s; it is 1 for 1 and
\* for 4 and 1.5 for 3.
C16_NormalizedInOneToTwo ==
    IsSome(result)
        => /\ Unwrap(result) = F32(args.m, 0)
           /\ args \in {F32(2^23, 0), F32(2^23, 2)} => Unwrap(result) = F32(2^23, 0)
           /\ args = F32(3 * 2^22, 1) => Unwrap(result) = F32(3 * 2^22, 0)

\* The call about to be recorded is one that socket handling captures: the
\* cursor is inside the bounds and the event is a press over a socket, or a
\* move or a release while dangling_source is set.
SocketCaptures ==
    /\ InBounds
    /\ \/ Is("LeftPressed") /\ Matching /= {}
       \/ Is("CursorMoved") /\ IsSome(dangling_source)
       \/ Is("LeftReleased") /\ IsSome(dangling_source)

\* C17: a call that socket handling captures returns Captured at once: no
\* child is offered the event, drag_start_position stays what it was and
\* neither on_translate nor on_scale is published.
C17_SocketCaptureReturnsAtOnce ==
    [][(IsCall /\ SocketCaptures')
        => /\ status' = Captured
           /\ offered' = << >>
           /\ drag_start_position' = drag_start_position
           /\ ~Published("on_translate")'
           /\ ~Published("on_scale")']_vars

\* A move inside the bounds while a pan was in progress and dangling_source
\* was set: on_dangling was published, the pan did not advance.
C17_Witness ==
    /\ Is("CursorMoved")
    /\ InBounds
    /\ IsSome(dangling_source)
    /\ IsSome(drag_start_position)
    /\ drag_start_position /= Some(CursorInContainer)
    /\ IntentsOf(shell) = <<"on_dangling">>
    /\ status = Captured

\* C18: a left press or a wheel scroll that a child captured, or whose
\* cursor is outside the bounds, leaves drag_start_position as it was and
\* publishes no on_scale; a left press inside the bounds that no socket and
\* no child claimed sets drag_start_position to the cursor relative to the
\* bounds' origin and returns Captured.
C18_GesturesOnlyForUnclaimed ==
    [][IsCall
        => /\ ((Is("LeftPressed")' \/ Is("WheelScrolled")')
                /\ (~NoChildCaptured' \/ ~InBounds'))
                => /\ drag_start_position' = drag_start_position
                   /\ ~Published("on_scale")'
           /\ (Is("LeftPressed")' /\ InBounds' /\ Matching' = {} /\ NoChildCaptured')
                => /\ drag_start_position' = Some(CursorInContainer')
                   /\ status' = Captured]_vars

\* A child captured a wheel scroll inside the bounds with on_scale
\* configured: nothing was published and no pan was started.
C18_Witness ==
    /\ Is("WheelScrolled")
    /\ InBounds
    /\ "on_scale" \in handlers
    /\ ~NoChildCaptured
    /\ shell = << >>
    /\ drag_start_position = None
    /\ status = Captured

\* C19: after any left release, wherever the cursor is and whatever
\* dangling_source holds, drag_start_position is None.
C19_ReleaseEndsPan ==
    [][(IsCall /\ Is("LeftReleased")') => drag_start_position' = None]_vars

\* C20: a call made while drag_start_position is set offers the event to
\* no child, whatever the event and wherever the cursor; a call that offers
\* the event to a child found drag_start_position None and is not one
\* socket handling captures.
C20_NoChildDuringPan ==
    [][IsCall
        => /\ IsSome(drag_start_position) => offered' = << >>
           /\ offered' /= << >>
                => drag_start_position = None /\ ~SocketCaptures']_vars

\* During a pan a move with the cursor outside the bounds was offered to no
\* child and ignored.
C20_Witness ==
    /\ Is("CursorMoved")
    /\ ~InBounds
    /\ IsSome(drag_start_position)
    /\ offered = << >>
    /\ status = Ignored

\* The points the socket messages of the last call carry: the point of
\* on_disconnect and the Absolute endpoints of the links of on_dangling.
DanglingLinks ==
    {Unwrap(shell[k].value).link :
        k \in {j \in 1..Len(shell) :
                  shell[j].intent = "on_dangling" /\ IsSome(shell[j].value)}}

CarriedPoints ==
    {shell[k].point : k \in {j \in 1..Len(shell) : shell[j].intent = "on_disconnect"}}
    \cup {e.point : e \in {f \in UNION {{l.from, l.to} : l \in DanglingLinks} :
                                f.tag = "Absolute"}}

\* C21: for a cursor inside the bounds the hit test is made at
\* cursor - bounds.origin - translation, not divided by the scale (a press
\* publishes a socket message exactly when a rectangle of the buffer holds
\* that point), and every point carried by on_disconnect or by the Absolute
\* endpoint of on_dangling is that point divided by the scale; for a cursor
\* outside the bounds no socket message is published.
C21_CoordinateFrames ==
    /\ (Is("LeftPressed") /\ InBounds
            /\ {"on_disconnect", "on_dangling"} \subseteq handlers)
          => /\ (Matching /= {}) <=> (CarriedPoints /= {})
             /\ Matching /= {} => PressedSocket \in Matching
    /\ InBounds => CarriedPoints \subseteq {World}
    /\ ~InBounds
          => /\ CarriedPoints = {}
             /\ ~Published("on_disconnect")
             /\ ~Published("on_dangling")
             /\ ~Published("on_connect")

\* At scale 2 with translation (-1, 1) a press over a socket published
\* on_disconnect with a point of half-integer coordinates.
C21_Witness ==
    /\ Is("LeftPressed")
    /\ InBounds
    /\ matrix = [scale |-> 2, tx |-> -1, ty |-> 1]
    /\ Matching /= {}
    /\ CarriedPoints = {World}
    /\ World.x.d = 2
    /\ PreTranslation /= CursorInContainer

\* The width and the height of the overlap of the bounds of the drawn
\* child at storage index i - 1 with the container's bounds (not positive:
\* no overlap).
OverlapWidth(i) ==
    LET b == args[i].bounds
        right == IF b.x + b.width < DrawBounds.x + DrawBounds.width
                 THEN b.x + b.width ELSE DrawBounds.x + DrawBounds.width
        left == IF b.x > DrawBounds.x THEN b.x ELSE DrawBounds.x
    IN  right - left

OverlapHeight(i) ==
    LET b == args[i].bounds
        bottom == IF b.y + b.height < DrawBounds.y + DrawBounds.height
                  THEN b.y + b.height ELSE DrawBounds.y + DrawBounds.height
        top == IF b.y > DrawBounds.y THEN b.y ELSE DrawBounds.y
    IN  bottom - top

\* The storage indices of the children draw painted, in the order painted.
PaintedChildren ==
    LET ops == Unwrap(result)
    IN  [k \in 1..(Len(ops) - 4) |-> ops[k + 4].index]

\* C22: draw paints the background, then the three guideline grids, then
\* children only, in ascending storage order, and a child is among them if
\* and only if its bounds overlap the container's bounds by at least a
\* pixel in width and in height.
C22_ChildrenPaintedIffVisible ==
    IsSome(result)
        => /\ Len(Unwrap(result)) >= 4
           /\ [k \in 1..4 |-> Unwrap(result)[k].op]
                 = <<"background", "guidelines", "guidelines", "guidelines">>
           /\ \A k \in 5..Len(Unwrap(result)) : Unwrap(result)[k].op = "child"
           /\ \A k \in 1..(Len(PaintedChildren) - 1) :
                 PaintedChildren[k] < PaintedChildren[k + 1]
           /\ \A i \in 1..Len(args) :
                 (\E k \in 1..Len(PaintedChildren) : PaintedChildren[k] = i - 1)
                    <=> (OverlapWidth(i) >= Sub /\ OverlapHeight(i) >= Sub)

\* The first child reaches less than a pixel into the right edge and was
\* skipped; the second lies inside by a full pixel and was painted.
C22_Witness ==
    /\ IsSome(result)
    /\ OverlapWidth(1) > 0 /\ OverlapWidth(1) < Sub /\ OverlapHeight(1) >= Sub
    /\ OverlapWidth(2) >= Sub /\ OverlapHeight(2) >= Sub
    /\ PaintedChildren = <<1>>

\* C23: every connection child, its layout a zero-sized placeholder, whose
\* two endpoints resolve is painted by the draw pass.
C23_ResolvedConnectionPainted ==
    IsSome(result)
        => \A i \in 1..Len(args) :
              (/\ args[i].kind = "Connection"
               /\ args[i].bounds.width = 0 /\ args[i].bounds.height = 0
               /\ args[i].resolves)
                 => \E k \in 1..Len(PaintedChildren) : PaintedChildren[k] = i - 1

\* What C24 expects of grid g along one axis: the positions
\* start + j * step (j >= 0) strictly between the bounds' edges, where
\* start = -edge + (translation mod edge) + origin, the remainder taking
\* the sign of the translation, edge = biggest spacing * scale and
\* step = spacing * scale.
ExpectedLines(g, origin, length, translation) ==
    LET edge == Max({args.style[1], args.style[2], args.style[3]}) * args.scale
        step == args.style[g] * args.scale
        t == translation * Sub
        start == -edge + (IF t >= 0 THEN t % edge ELSE -((-t) % edge)) + origin * Sub
    IN  {p \in (origin * Sub + 1)..((origin + length) * Sub - 1) :
            p >= start /\ (p - start) % step = 0}

LinesOf(g, axis) ==
    LET quads == Unwrap(result)[g]
    IN  {quads[k].at : k \in {j \in 1..Len(quads) : quads[j].axis = axis}}

\* C24: a grid whose spacing times the normalized scale is below 5 pixels
\* draws nothing; any other grid draws, along each axis, exactly the
\* positions start + j * step that lie strictly inside the bounds, each
\* once, the vertical lines before the horizontal ones, for negative
\* translations as for the others.
C24_GuidelinesInsideBounds ==
    IsSome(result)
        => \A g \in 1..3 :
              LET quads == Unwrap(result)[g]
              IN  IF args.style[g] * args.scale < 5 * Sub
                  THEN quads = << >>
                  ELSE /\ LinesOf(g, "x") = ExpectedLines(g, GridBounds.x, GridBounds.width,
                                                           args.offset.x)
                       /\ LinesOf(g, "y") = ExpectedLines(g, GridBounds.y, GridBounds.height,
                                                           args.offset.y)
                       /\ \A j, k \in 1..Len(quads) :
                             j < k => \/ quads[j].axis = "x" /\ quads[k].axis = "y"
                                      \/ quads[j].axis = quads[k].axis
                                           /\ quads[j].at < quads[k].at

\* With a negative translation the minor grid was skipped, and the major
\* grid drew a vertical line inside the bounds.
C24_Witness ==
    /\ IsSome(result)
    /\ args.offset.x < 0
    /\ args.offset.y < 0
    /\ Unwrap(result)[1] = << >>
    /\ LinesOf(3, "x") /= {}
    /\ \A p \in LinesOf(3, "x") :
          p > GridBounds.x * Sub /\ p < (GridBounds.x + GridBounds.width) * Sub

====
